---- MODULE Spec2Model ----
(***************************************************************************)
(* Model of crates/types/src/services/executor.rs: the execution-mode      *)
(* wrapper ExecutionTypes<P, V> / ExecutionType<T>, the ExecutionResult    *)
(* aggregate and the Error / TransactionValidityError taxonomy with its    *)
(* conversions and display texts.                                          *)
(***************************************************************************)
EXTENDS Integers, Sequences, FiniteSets, TLC

VARIABLES
    held,                  \* the ExecutionType<T> the caller holds, if any
    eblock,                \* the ExecutionBlock the caller holds, if any
    ret,                   \* the last call: its receiver, arguments and result
    mode,                  \* the ExecutionKind the executor runs under
    pending,               \* the transactions the executor has yet to attempt
    block,                 \* the transactions included so far
    skipped_transactions,  \* the (id, Error) pairs of the rejected transactions
    tx_status,             \* the statuses of the included transactions
    xstate,                \* "idle", "running", "done" or "aborted"
    result                 \* the executor's Result<ExecutionResult>, once returned

vars == <<held, eblock, ret,
          mode, pending, block, skipped_transactions, tx_status, xstate, result>>

wrapperVars == <<held, eblock, ret>>
executorVars ==
    <<mode, pending, block, skipped_transactions, tx_status, xstate, result>>

(***************************************************************************)
(* Bounds                                                                  *)
(***************************************************************************)
\* payload values of the generic parameters P, V, T are 0..MaxVal
MaxVal == 1
\* block heights range over 0..MaxHeight
MaxHeight == 1
\* identifiers (TxId, Nonce, ContractId, the tx id of a UtxoId) are 0..MaxId
MaxId == 2
\* output indexes of a UtxoId are 0..MaxOutputIndex
MaxOutputIndex == 1
\* the executor is handed at most MaxTxs transaction attempts
MaxTxs == 3

Vals == 0..MaxVal

(***************************************************************************)
(* Option<T>: None is the empty sequence, Some(x) the one-element sequence *)
(***************************************************************************)
None == <<>>
Some(x) == <<x>>
\* Option::map with the constructor of the variant named tag
OptionMap(o, tag) == IF o = None THEN None ELSE Some([tag |-> tag, payload |-> o[1]])

\* the functions a caller may pass: FnOnce(T) -> U and FnOnce(T) -> Option<U>
Fns == [Vals -> Vals]
OptFns == [Vals -> {None} \cup {Some(x) : x \in Vals}]

(***************************************************************************)
(* ExecutionKind and ExecutionTypes<P, V>                                  *)
(***************************************************************************)
ExecutionKind == {"DryRun", "Production", "Validation"}

DryRun(p) == [tag |-> "DryRun", payload |-> p]
Production(p) == [tag |-> "Production", payload |-> p]
Validation(v) == [tag |-> "Validation", payload |-> v]

ExecutionTypes(P, V) ==
    {DryRun(p) : p \in P} \cup {Production(p) : p \in P} \cup {Validation(v) : v \in V}

ExecutionType(T) == ExecutionTypes(T, T)

\* map_p with the DryRun arm rebuilt as Production
map_p_dry_run_as_production(self, f) ==
    CASE self.tag = "DryRun" ->
            [out |-> Production(f[self.payload]), calls |-> <<self.payload>>]
      [] self.tag = "Production" ->
            [out |-> Production(f[self.payload]), calls |-> <<self.payload>>]
      [] self.tag = "Validation" ->
            [out |-> Validation(self.payload), calls |-> <<>>]

\* map_p: the mapped wrapper and the arguments f was applied to, in order
map_p(self, f) ==
    CASE self.tag = "DryRun" ->
            [out |-> DryRun(f[self.payload]), calls |-> <<self.payload>>]
      [] self.tag = "Production" ->
            [out |-> Production(f[self.payload]), calls |-> <<self.payload>>]
      [] self.tag = "Validation" ->
            [out |-> Validation(self.payload), calls |-> <<>>]

\* map_v: the mapped wrapper and the arguments f was applied to, in order
map_v(self, f) ==
    CASE self.tag = "DryRun" ->
            [out |-> DryRun(self.payload), calls |-> <<>>]
      [] self.tag = "Production" ->
            [out |-> Production(self.payload), calls |-> <<>>]
      [] self.tag = "Validation" ->
            [out |-> Validation(f[self.payload]), calls |-> <<self.payload>>]

to_kind(self) ==
    CASE self.tag = "DryRun" -> "DryRun"
      [] self.tag = "Production" -> "Production"
      [] self.tag = "Validation" -> "Validation"

(***************************************************************************)
(* ExecutionType<T>, the single-type form                                  *)
(***************************************************************************)
\* map that leaves a Validation payload alone, as map_p does
map_skipping_validation(self, f) ==
    CASE self.tag = "DryRun" ->
            [out |-> DryRun(f[self.payload]), calls |-> <<self.payload>>]
      [] self.tag = "Production" ->
            [out |-> Production(f[self.payload]), calls |-> <<self.payload>>]
      [] self.tag = "Validation" ->
            [out |-> Validation(self.payload), calls |-> <<>>]

map(self, f) ==
    CASE self.tag = "DryRun" ->
            [out |-> DryRun(f[self.payload]), calls |-> <<self.payload>>]
      [] self.tag = "Production" ->
            [out |-> Production(f[self.payload]), calls |-> <<self.payload>>]
      [] self.tag = "Validation" ->
            [out |-> Validation(f[self.payload]), calls |-> <<self.payload>>]

\* filter_map with the DryRun arm rebuilt as Production
filter_map_dry_run_as_production(self, f) ==
    CASE self.tag = "DryRun" ->
            [out |-> OptionMap(f[self.payload], "Production"), calls |-> <<self.payload>>]
      [] self.tag = "Production" ->
            [out |-> OptionMap(f[self.payload], "Production"), calls |-> <<self.payload>>]
      [] self.tag = "Validation" ->
            [out |-> OptionMap(f[self.payload], "Validation"), calls |-> <<self.payload>>]

filter_map(self, f) ==
    CASE self.tag = "DryRun" ->
            [out |-> OptionMap(f[self.payload], "DryRun"), calls |-> <<self.payload>>]
      [] self.tag = "Production" ->
            [out |-> OptionMap(f[self.payload], "Production"), calls |-> <<self.payload>>]
      [] self.tag = "Validation" ->
            [out |-> OptionMap(f[self.payload], "Validation"), calls |-> <<self.payload>>]

into_inner(self) ==
    CASE self.tag \in {"DryRun", "Production", "Validation"} -> self.payload

split(self) ==
    LET kind == to_kind(self)
    IN  <<kind, into_inner(self)>>

\* wrap with the DryRun arm building Production
wrap_dry_run_as_production(kind, t) ==
    CASE kind = "DryRun" -> Production(t)
      [] kind = "Production" -> Production(t)
      [] kind = "Validation" -> Validation(t)

wrap(kind, t) ==
    CASE kind = "DryRun" -> DryRun(t)
      [] kind = "Production" -> Production(t)
      [] kind = "Validation" -> Validation(t)

(***************************************************************************)
(* Borrows.  A reference to the payload of the held wrapper is the slot    *)
(* (the variant whose field the pattern bound) it points into; Load reads  *)
(* through it and Store writes through it.  The discriminant is not part   *)
(* of the borrowed place.                                                  *)
(***************************************************************************)
Ref(slot) == [borrow |-> slot]
Load(wr, r) == IF wr.tag = r.borrow THEN Some(wr.payload) ELSE None
Store(wr, r, x) == IF wr.tag = r.borrow THEN [tag |-> wr.tag, payload |-> x] ELSE wr

as_ref(self) ==
    CASE self.tag = "DryRun" -> DryRun(Ref("DryRun"))
      [] self.tag = "Production" -> Production(Ref("Production"))
      [] self.tag = "Validation" -> Validation(Ref("Validation"))

\* as_mut with the Production arm rebuilt as DryRun
as_mut_production_as_dry_run(self) ==
    CASE self.tag = "DryRun" -> DryRun(Ref("DryRun"))
      [] self.tag = "Production" -> DryRun(Ref("Production"))
      [] self.tag = "Validation" -> Validation(Ref("Validation"))

as_mut(self) ==
    CASE self.tag = "DryRun" -> DryRun(Ref("DryRun"))
      [] self.tag = "Production" -> Production(Ref("Production"))
      [] self.tag = "Validation" -> Validation(Ref("Validation"))

deref(self) ==
    CASE self.tag = "DryRun" -> Ref("DryRun")
      [] self.tag = "Production" -> Ref("Production")
      [] self.tag = "Validation" -> Ref("Validation")

deref_mut(self) ==
    CASE self.tag = "DryRun" -> Ref("DryRun")
      [] self.tag = "Production" -> Ref("Production")
      [] self.tag = "Validation" -> Ref("Validation")

(***************************************************************************)
(* ExecutionBlock = ExecutionTypes<PartialFuelBlock, Block> and id()       *)
(***************************************************************************)
PartialFuelBlocks ==
    {[header |-> [height |-> h], transactions |-> <<>>] : h \in 0..MaxHeight}

Blocks ==
    {[header |-> [height |-> h, transactions_count |-> n], transactions |-> <<>>] :
        h \in 0..MaxHeight, n \in 0..1}

\* Block::id(): the id of a block is the hash of its header; the hash is
\* taken to be collision free
BlockId(b) == <<"BlockId", b.header.height, b.header.transactions_count>>

ExecutionBlock == ExecutionTypes(PartialFuelBlocks, Blocks)

\* id that answers in Production mode as well
id_in_production(self) ==
    CASE self.tag = "DryRun" -> None
      [] self.tag = "Production" -> Some(<<"BlockId", self.payload.header.height, 0>>)
      [] self.tag = "Validation" -> Some(BlockId(self.payload))

id(self) ==
    CASE self.tag = "DryRun" -> None
      [] self.tag = "Production" -> None
      [] self.tag = "Validation" -> Some(BlockId(self.payload))

(***************************************************************************)
(* Payload types of the errors                                             *)
(***************************************************************************)
\* Bytes32 values (TxId, Nonce, ContractId): the 32-byte big-endian number
Bytes32 == 0..MaxId
UtxoIds == [tx_id : Bytes32, output_index : 0..MaxOutputIndex]

\* fuel_tx::ValidityError and fuel_vm::CheckError, as far as the conversions
\* look into them
ValidityErrors == {"NoSpendableInput", "TransactionMaturity"}
CheckError_Validity(e) == [tag |-> "Validity", payload |-> e]
CheckErrors ==
    {CheckError_Validity(e) : e \in ValidityErrors}
        \cup {[tag |-> "PredicateVerificationFailed", payload |-> ""]}

\* opaque causes (anyhow::Error, Box<dyn Error>, Backtrace, String) by message
Causes == {"cause"}

HexDigit == <<"0", "1", "2", "3", "4", "5", "6", "7",
              "8", "9", "a", "b", "c", "d", "e", "f">>
\* {:02x} of one byte
Hex2(b) == HexDigit[((b \div 16) % 16) + 1] \o HexDigit[(b % 16) + 1]
\* the 31 leading zero bytes of a Bytes32 below 256
ZeroBytes31 == "00000000000000000000000000000000000000000000000000000000000000"
\* {:#x} of a Bytes32
LowerHexBytes32(n) == "0x" \o ZeroBytes31 \o Hex2(n)
\* {:#x} of a UtxoId: the transaction id, then the output index
LowerHexUtxoId(u) == LowerHexBytes32(u.tx_id) \o Hex2(u.output_index)
\* {:?} and {:#?} of a CheckError
DebugCheckError(c) ==
    IF c.tag = "Validity" THEN "Validity(" \o c.payload \o ")" ELSE c.tag
PrettyDebugCheckError(c) ==
    IF c.tag = "Validity" THEN "Validity(\n    " \o c.payload \o ",\n)" ELSE c.tag

(***************************************************************************)
(* TransactionValidityError                                                *)
(***************************************************************************)
UtxoIdVariants ==
    {"CoinAlreadySpent", "CoinHasNotMatured", "CoinDoesNotExist",
     "InvalidContractInputIndex"}
NonceVariants ==
    {"MessageAlreadySpent", "MessageSpendTooEarly", "MessageDoesNotExist",
     "MessageSenderMismatch", "MessageRecipientMismatch", "MessageAmountMismatch",
     "MessageNonceMismatch", "MessageDataMismatch"}
TxIdVariants == {"PredicateExecutionDisabled", "InvalidPredicate"}

TransactionValidityErrorVariants ==
    UtxoIdVariants \cup NonceVariants \cup TxIdVariants \cup {"Validation"}

TransactionValidityError(variant, x) == [tag |-> variant, payload |-> x]

DisplayTransactionValidityError(v) ==
    CASE v.tag = "CoinAlreadySpent" -> "Coin input was already spent"
      [] v.tag = "CoinHasNotMatured" -> "Coin has not yet reached maturity"
      [] v.tag = "CoinDoesNotExist" -> "The specified coin doesn't exist"
      [] v.tag = "MessageAlreadySpent" -> "The specified message was already spent"
      [] v.tag = "MessageSpendTooEarly" ->
            "Message is not yet spendable, as it's DA height is newer than this block allows"
      [] v.tag = "MessageDoesNotExist" -> "The specified message doesn't exist"
      [] v.tag = "MessageSenderMismatch" ->
            "The input message sender doesn't match the relayer message sender"
      [] v.tag = "MessageRecipientMismatch" ->
            "The input message recipient doesn't match the relayer message recipient"
      [] v.tag = "MessageAmountMismatch" ->
            "The input message amount doesn't match the relayer message amount"
      [] v.tag = "MessageNonceMismatch" ->
            "The input message nonce doesn't match the relayer message nonce"
      [] v.tag = "MessageDataMismatch" ->
            "The input message data doesn't match the relayer message data"
      [] v.tag = "InvalidContractInputIndex" ->
            "Contract output index isn't valid: " \o LowerHexUtxoId(v.payload)
      [] v.tag = "PredicateExecutionDisabled" ->
            "The transaction contains predicate inputs which aren't enabled: "
                \o LowerHexBytes32(v.payload)
      [] v.tag = "InvalidPredicate" ->
            "The transaction contains a predicate which failed to validate: TransactionId("
                \o LowerHexBytes32(v.payload) \o ")"
      [] v.tag = "Validation" ->
            "Transaction validity: " \o PrettyDebugCheckError(v.payload)

TransactionValidityError_from_CheckError(e) ==
    TransactionValidityError("Validation", e)

TransactionValidityError_from_ValidityError(e) ==
    TransactionValidityError("Validation", CheckError_Validity(e))

(***************************************************************************)
(* Error                                                                   *)
(***************************************************************************)
ErrorUnitVariants ==
    {"TooManyTransactions", "OutputAlreadyExists", "FeeOverflow", "MintMissing",
     "MintFoundSecondEntry", "MintHasUnexpectedIndex", "MintIsNotLastTransaction",
     "MintMismatch", "CoinbaseAmountMismatch", "InvalidFeeAmount", "InvalidBlockId"}
ErrorBytes32Variants ==
    {"TransactionIdCollision", "InvalidTransactionOutcome", "ContractUtxoMissing",
     "MessageAlreadySpent"}
ErrorCauseVariants ==
    {"CoinbaseCannotIncreaseBalance", "StorageError", "RelayerError", "Backtrace",
     "InputTypeMismatch"}

ErrorVariants ==
    ErrorUnitVariants \cup ErrorBytes32Variants \cup ErrorCauseVariants
        \cup {"TransactionValidity", "VmExecution", "InvalidTransaction"}

Error(variant, x) == [tag |-> variant, payload |-> x]

\* the character U+0060, by its code: a TLA+ string cannot hold it
Backquote == 96

\* the derived Display.  A text is a string; a text that holds a backquote is
\* the sequence of its pieces in order, strings and character codes, and
\* stands for their concatenation
DisplayError(e) ==
    CASE e.tag = "TransactionIdCollision" ->
            "Transaction id was already used: " \o LowerHexBytes32(e.payload)
      [] e.tag = "TooManyTransactions" -> "Too many transactions in the block"
      [] e.tag = "OutputAlreadyExists" -> "output already exists"
      [] e.tag = "FeeOverflow" -> "The computed fee caused an integer overflow"
      [] e.tag = "MintMissing" ->
            <<"The block is missing ", Backquote, "Mint", Backquote, " transaction.">>
      [] e.tag = "MintFoundSecondEntry" ->
            <<"Found the second entry of the ", Backquote, "Mint", Backquote,
              " transaction in the block.">>
      [] e.tag = "MintHasUnexpectedIndex" ->
            <<"The ", Backquote, "Mint", Backquote, " transaction has an unexpected index.">>
      [] e.tag = "MintIsNotLastTransaction" ->
            <<"The last transaction in the block is not ", Backquote, "Mint", Backquote, ".">>
      [] e.tag = "MintMismatch" ->
            <<"The ", Backquote, "Mint", Backquote, " transaction mismatches expectations.">>
      [] e.tag = "CoinbaseCannotIncreaseBalance" ->
            "Can't increase the balance of the coinbase contract: " \o e.payload \o "."
      [] e.tag = "CoinbaseAmountMismatch" -> "Coinbase amount mismatches with expected."
      [] e.tag = "TransactionValidity" -> DisplayTransactionValidityError(e.payload)
      [] e.tag = "StorageError" -> "got error during work with storage " \o e.payload
      [] e.tag = "RelayerError" -> "got error during work with relayer " \o e.payload
      [] e.tag = "VmExecution" ->
            "Transaction(" \o LowerHexBytes32(e.payload.transaction_id)
                \o ") execution error: " \o e.payload.error
      [] e.tag = "InvalidTransaction" -> DebugCheckError(e.payload)
      [] e.tag = "Backtrace" -> "Execution error with backtrace"
      [] e.tag = "InvalidTransactionOutcome" ->
            "Transaction doesn't match expected result: " \o LowerHexBytes32(e.payload)
      [] e.tag = "InvalidFeeAmount" -> "The amount of charged fees is invalid"
      [] e.tag = "InvalidBlockId" -> "Block id is invalid"
      [] e.tag = "ContractUtxoMissing" ->
            "No matching utxo for contract id $" \o LowerHexBytes32(e.payload)
      [] e.tag = "MessageAlreadySpent" ->
            "message already spent " \o LowerHexBytes32(e.payload)
      [] e.tag = "InputTypeMismatch" -> "Expected input of type " \o e.payload

\* a conversion that flattens the validity error into a storage error message
Error_from_TransactionValidityError_flattened(v) ==
    Error("StorageError", DisplayTransactionValidityError(v))

\* #[from] on Error::TransactionValidity
Error_from_TransactionValidityError(v) == Error("TransactionValidity", v)

Error_from_Backtrace(e) == Error("Backtrace", e)

Error_from_CheckError(e) == Error("InvalidTransaction", e)

\* a conversion that wraps the validity error twice
Error_from_ValidityError_double_wrapped(e) ==
    Error("TransactionValidity",
          TransactionValidityError("Validation", CheckError_Validity(e)))

Error_from_ValidityError(e) == Error("InvalidTransaction", CheckError_Validity(e))

\* impl From<Error> for anyhow::Error: the display text becomes the message
anyhow_from_Error(error) == DisplayError(error)

\* the values of the two error types, by payload type
TransactionValidityErrorsOfUtxoId ==
    {TransactionValidityError(t, u) : t \in UtxoIdVariants, u \in UtxoIds}
TransactionValidityErrorsOfBytes32 ==
    {TransactionValidityError(t, n) : t \in NonceVariants \cup TxIdVariants, n \in Bytes32}
TransactionValidityErrorsOfCheckError ==
    {TransactionValidityError("Validation", c) : c \in CheckErrors}

ErrorsOfUnit == {Error(t, "") : t \in ErrorUnitVariants}
ErrorsOfBytes32 == {Error(t, n) : t \in ErrorBytes32Variants, n \in Bytes32}
ErrorsOfCause == {Error(t, c) : t \in ErrorCauseVariants, c \in Causes}
ErrorsOfVmExecution ==
    {Error("VmExecution", [error |-> c, transaction_id |-> n]) : c \in Causes, n \in Bytes32}
ErrorsOfCheckError == {Error("InvalidTransaction", c) : c \in CheckErrors}

(***************************************************************************)
(* State machine of a caller holding one ExecutionType<T>                  *)
(***************************************************************************)
NoCall == [op |-> "none"]

Init ==
    /\ held = None
    /\ eblock = None
    /\ ret = NoCall
    /\ mode = "Production"
    /\ pending = <<>>
    /\ block = <<>>
    /\ skipped_transactions = <<>>
    /\ tx_status = <<>>
    /\ xstate = "idle"
    /\ result = None

\* kind.wrap(t)
Wrap ==
    \E kind \in ExecutionKind, t \in Vals :
        /\ held' = Some(wrap(kind, t))
        /\ ret' = [op |-> "wrap", kind |-> kind, arg |-> t, out |-> wrap(kind, t)]
        /\ UNCHANGED <<eblock, executorVars>>

\* self.map_p(f); the caller keeps the mapped wrapper
MapP ==
    \E f \in Fns :
        /\ held # None
        /\ LET r == map_p(held[1], f)
           IN  /\ held' = Some(r.out)
               /\ ret' = [op |-> "map_p", self |-> held[1], f |-> f,
                          out |-> r.out, calls |-> r.calls]
        /\ UNCHANGED <<eblock, executorVars>>

\* self.map_v(f)
MapV ==
    \E f \in Fns :
        /\ held # None
        /\ LET r == map_v(held[1], f)
           IN  /\ held' = Some(r.out)
               /\ ret' = [op |-> "map_v", self |-> held[1], f |-> f,
                          out |-> r.out, calls |-> r.calls]
        /\ UNCHANGED <<eblock, executorVars>>

\* self.map(f)
Map ==
    \E f \in Fns :
        /\ held # None
        /\ LET r == map(held[1], f)
           IN  /\ held' = Some(r.out)
               /\ ret' = [op |-> "map", self |-> held[1], f |-> f,
                          out |-> r.out, calls |-> r.calls]
        /\ UNCHANGED <<eblock, executorVars>>

\* self.filter_map(f); the caller keeps what comes back, if anything
FilterMap ==
    \E f \in OptFns :
        /\ held # None
        /\ LET r == filter_map(held[1], f)
           IN  /\ held' = r.out
               /\ ret' = [op |-> "filter_map", self |-> held[1], f |-> f,
                          out |-> r.out, calls |-> r.calls]
        /\ UNCHANGED <<eblock, executorVars>>

\* self.into_inner() consumes the wrapper
IntoInner ==
    /\ held # None
    /\ held' = None
    /\ ret' = [op |-> "into_inner", self |-> held[1], out |-> into_inner(held[1])]
    /\ UNCHANGED <<eblock, executorVars>>

\* self.split() consumes the wrapper; wrapped is the (kind, t) of the wrap call
\* that built the receiver, when split follows it directly
Split ==
    /\ held # None
    /\ held' = None
    /\ ret' = [op |-> "split", self |-> held[1], out |-> split(held[1]),
               wrapped |-> IF ret.op = "wrap" THEN Some(<<ret.kind, ret.arg>>) ELSE None]
    /\ UNCHANGED <<eblock, executorVars>>

\* self.to_kind() borrows the wrapper
ToKind ==
    /\ held # None
    /\ ret' = [op |-> "to_kind", self |-> held[1], out |-> to_kind(held[1])]
    /\ UNCHANGED <<held, eblock, executorVars>>

\* self.as_ref() borrows the wrapper; the caller reads through the view
AsRef ==
    /\ held # None
    /\ LET r == as_ref(held[1])
       IN  ret' = [op |-> "as_ref", self |-> held[1], out |-> r,
                   seen |-> Load(held[1], r.payload)]
    /\ UNCHANGED <<held, eblock, executorVars>>

\* *self.as_mut().payload = x
AsMut ==
    \E x \in Vals :
        /\ held # None
        /\ LET r == as_mut(held[1])
           IN  /\ held' = Some(Store(held[1], r.payload, x))
               /\ ret' = [op |-> "as_mut", self |-> held[1], out |-> r, arg |-> x]
        /\ UNCHANGED <<eblock, executorVars>>

\* &*self; the caller reads through the reference
Deref ==
    /\ held # None
    /\ LET r == deref(held[1])
       IN  ret' = [op |-> "deref", self |-> held[1], out |-> r,
                   seen |-> Load(held[1], r)]
    /\ UNCHANGED <<held, eblock, executorVars>>

\* **self = x
DerefMut ==
    \E x \in Vals :
        /\ held # None
        /\ LET r == deref_mut(held[1])
           IN  /\ held' = Some(Store(held[1], r, x))
               /\ ret' = [op |-> "deref_mut", self |-> held[1], out |-> r, arg |-> x]
        /\ UNCHANGED <<eblock, executorVars>>

\* the caller is handed an ExecutionBlock
NewExecutionBlock ==
    \E b \in ExecutionBlock :
        /\ eblock' = Some(b)
        /\ ret' = [op |-> "new_block", out |-> b]
        /\ UNCHANGED <<held, executorVars>>

\* self.id() on the ExecutionBlock
Id ==
    /\ eblock # None
    /\ ret' = [op |-> "id", self |-> eblock[1], out |-> id(eblock[1])]
    /\ UNCHANGED <<held, eblock, executorVars>>

(***************************************************************************)
(* Errors built and converted by the executor's call sites                 *)
(***************************************************************************)
Built(e) ==
    /\ ret' = [op |-> "error", out |-> e, text |-> DisplayError(e)]
    /\ UNCHANGED <<held, eblock, executorVars>>

\* an Error built from one of its own variants
BuildError ==
    \/ \E e \in ErrorsOfUnit : Built(e)
    \/ \E e \in ErrorsOfBytes32 : Built(e)
    \/ \E e \in ErrorsOfCause : Built(e)
    \/ \E e \in ErrorsOfVmExecution : Built(e)
    \/ \E e \in ErrorsOfCheckError : Built(e)

Converted(v) ==
    /\ LET e == Error_from_TransactionValidityError(v)
       IN  ret' = [op |-> "from_transaction_validity", self |-> v, out |-> e,
                   text |-> DisplayError(e),
                   self_text |-> DisplayTransactionValidityError(v)]
    /\ UNCHANGED <<held, eblock, executorVars>>

\* Error::from(v) for a TransactionValidityError v
ErrorFromTransactionValidityError ==
    \/ \E v \in TransactionValidityErrorsOfUtxoId : Converted(v)
    \/ \E v \in TransactionValidityErrorsOfBytes32 : Converted(v)
    \/ \E v \in TransactionValidityErrorsOfCheckError : Converted(v)

\* Error::from(c) for a CheckError c
ErrorFromCheckError ==
    \E c \in CheckErrors :
        /\ ret' = [op |-> "error_from_check", self |-> c,
                   out |-> Error_from_CheckError(c)]
        /\ UNCHANGED <<held, eblock, executorVars>>

\* Error::from(e) for a ValidityError e
ErrorFromValidityError ==
    \E e \in ValidityErrors :
        /\ ret' = [op |-> "error_from_validity", self |-> e,
                   out |-> Error_from_ValidityError(e)]
        /\ UNCHANGED <<held, eblock, executorVars>>

\* TransactionValidityError::from(c) for a CheckError c
TransactionValidityErrorFromCheckError ==
    \E c \in CheckErrors :
        /\ ret' = [op |-> "validity_from_check", self |-> c,
                   out |-> TransactionValidityError_from_CheckError(c)]
        /\ UNCHANGED <<held, eblock, executorVars>>

\* TransactionValidityError::from(e) for a ValidityError e
TransactionValidityErrorFromValidityError ==
    \E e \in ValidityErrors :
        /\ ret' = [op |-> "validity_from_validity", self |-> e,
                   out |-> TransactionValidityError_from_ValidityError(e)]
        /\ UNCHANGED <<held, eblock, executorVars>>

\* Error::from(b) for a Backtrace b
ErrorFromBacktrace ==
    \E b \in Causes :
        /\ ret' = [op |-> "error_from_backtrace", self |-> b,
                   out |-> Error_from_Backtrace(b)]
        /\ UNCHANGED <<held, eblock, executorVars>>

\* anyhow::Error::from(e) for the Error just built
AnyhowFromError ==
    /\ ret.op = "error"
    /\ ret' = [op |-> "anyhow_from_error", self |-> ret.out,
               out |-> anyhow_from_Error(ret.out)]
    /\ UNCHANGED <<held, eblock, executorVars>>

Next ==
    \/ Wrap
    \/ MapP
    \/ MapV
    \/ Map
    \/ FilterMap
    \/ IntoInner
    \/ Split
    \/ ToKind
    \/ AsRef
    \/ AsMut
    \/ Deref
    \/ DerefMut
    \/ NewExecutionBlock
    \/ Id
    \/ BuildError
    \/ ErrorFromTransactionValidityError
    \/ ErrorFromCheckError
    \/ ErrorFromValidityError
    \/ TransactionValidityErrorFromCheckError
    \/ TransactionValidityErrorFromValidityError
    \/ ErrorFromBacktrace
    \/ AnyhowFromError

Spec == Init /\ [][Next]_vars
(***************************************************************************)
(* Outcome aggregation: the executor attempts every transaction of its     *)
(* input and returns one ExecutionResult, or the Error that ended the      *)
(* block.                                                                  *)
(***************************************************************************)
Verdicts == {"Success", "Failed", "Rejected"}
Transactions == [id : Bytes32, verdict : Verdicts]

\* the sequences over S of length at most n
SeqUpTo(S, n) == UNION {[1..k -> S] : k \in 0..n}

\* the inputs: any sequence of attempts; an id may be attempted more than
\* once, and each attempt has its own verdict
Inputs == SeqUpTo(Transactions, MaxTxs)

TransactionExecutionStatus(tx) ==
    [id |-> tx.id,
     result |-> IF tx.verdict = "Success"
                THEN [tag |-> "Success", result |-> None]
                ELSE [tag |-> "Failed", result |-> None, reason |-> "Revert"]]

ExecutionResult(b, skipped, status) ==
    [block |-> [header |-> [height |-> 0, transactions_count |-> Len(b)],
                transactions |-> b],
     skipped_transactions |-> skipped,
     tx_status |-> status]

Ok(x) == [ok |-> TRUE, value |-> x]
Err(e) == [ok |-> FALSE, error |-> e]

\* the ids of a sequence of transactions or statuses
Ids(s) == {s[i].id : i \in 1..Len(s)}
SkippedIds(s) == {s[i][1] : i \in 1..Len(s)}

\* the reason a rejected transaction is rejected for
Rejection(tx) ==
    Error_from_TransactionValidityError(
        TransactionValidityError("CoinAlreadySpent",
                                 [tx_id |-> tx.id, output_index |-> 0]))

\* one attempt: what becomes of the three sequences, and the Error that
\* ends the block, if any
execute_transaction(kind, b, skipped, status, tx) ==
    IF tx.id \in Ids(b)
    THEN [block |-> b, skipped_transactions |-> skipped, tx_status |-> status,
          fatal |-> Some(Error("TransactionIdCollision", tx.id))]
    ELSE IF tx.verdict = "Rejected"
    THEN IF kind = "Validation"
         THEN [block |-> b, skipped_transactions |-> skipped, tx_status |-> status,
               fatal |-> Some(Rejection(tx))]
         ELSE [block |-> b,
               skipped_transactions |-> Append(skipped, <<tx.id, Rejection(tx)>>),
               tx_status |-> status, fatal |-> None]
    ELSE [block |-> Append(b, tx), skipped_transactions |-> skipped,
          tx_status |-> Append(status, TransactionExecutionStatus(tx)),
          fatal |-> None]

InitExecutor ==
    /\ held = None
    /\ eblock = None
    /\ ret = NoCall
    /\ mode \in ExecutionKind
    /\ pending \in Inputs
    /\ block = <<>>
    /\ skipped_transactions = <<>>
    /\ tx_status = <<>>
    /\ xstate = "running"
    /\ result = None

\* the next transaction is attempted
ExecuteTransaction ==
    /\ xstate = "running"
    /\ pending # <<>>
    /\ LET r == execute_transaction(mode, block, skipped_transactions, tx_status,
                                    Head(pending))
       IN  /\ block' = r.block
           /\ skipped_transactions' = r.skipped_transactions
           /\ tx_status' = r.tx_status
           /\ IF r.fatal = None
              THEN /\ pending' = Tail(pending)
                   /\ UNCHANGED <<xstate, result>>
              ELSE /\ pending' = <<>>
                   /\ xstate' = "aborted"
                   /\ result' = Some(Err(r.fatal[1]))
    /\ UNCHANGED <<mode, wrapperVars>>

\* every transaction was attempted: the ExecutionResult is returned
Finish ==
    /\ xstate = "running"
    /\ pending = <<>>
    /\ xstate' = "done"
    /\ result' = Some(Ok(ExecutionResult(block, skipped_transactions, tx_status)))
    /\ UNCHANGED <<mode, pending, block, skipped_transactions, tx_status, wrapperVars>>

NextExecutor ==
    \/ ExecuteTransaction
    \/ Finish

SpecExecutor == InitExecutor /\ [][NextExecutor]_vars
(***************************************************************************)
(* Properties                                                              *)
(***************************************************************************)

\* C1: map_p and map_v keep to_kind(); map_p applies f to the payload exactly
\* when the wrapper is DryRun or Production and hands a Validation payload
\* back unchanged; map_v applies f exactly when the wrapper is Validation and
\* hands a DryRun or Production payload back unchanged.
C1_MapPMapVKeepKind ==
    /\ ret.op = "map_p" =>
          /\ to_kind(ret.out) = to_kind(ret.self)
          /\ IF ret.self.tag \in {"DryRun", "Production"}
             THEN /\ ret.calls = <<ret.self.payload>>
                  /\ ret.out.payload = ret.f[ret.self.payload]
             ELSE /\ ret.calls = <<>>
                  /\ ret.out.payload = ret.self.payload
    /\ ret.op = "map_v" =>
          /\ to_kind(ret.out) = to_kind(ret.self)
          /\ IF ret.self.tag = "Validation"
             THEN /\ ret.calls = <<ret.self.payload>>
                  /\ ret.out.payload = ret.f[ret.self.payload]
             ELSE /\ ret.calls = <<>>
                  /\ ret.out.payload = ret.self.payload

C1_Witness ==
    /\ ret.op = "map_p"
    /\ ret.self.tag = "DryRun"
    /\ ret.out.payload # ret.self.payload

\* C2: k.wrap(x).split() is the pair (k, x), for every kind k and payload x.
C2_SplitAfterWrap ==
    (ret.op = "split" /\ ret.wrapped # None) => ret.out = ret.wrapped[1]

C2_Witness ==
    /\ ret.op = "split"
    /\ ret.wrapped # None
    /\ ret.out[1] = "DryRun"

\* C3: m.map(f).into_inner() is f(m.into_inner()), and m.map(f) holds the
\* variant of m.
C3_MapThenIntoInner ==
    ret.op = "map" =>
        /\ ret.out.tag = ret.self.tag
        /\ into_inner(ret.out) = ret.f[into_inner(ret.self)]

C3_Witness ==
    /\ ret.op = "map"
    /\ ret.self.tag = "Validation"
    /\ ret.out.payload # ret.self.payload

C5_FromTransactionValidity ==
    ret.op = "from_transaction_validity" =>
        /\ ret.out.tag = "TransactionValidity"
        /\ ret.out.payload = ret.self
        /\ ret.text = ret.self_text

C5_Witness ==
    /\ ret.op = "from_transaction_validity"
    /\ ret.self.tag = "InvalidPredicate"
    /\ ret.out.tag = "TransactionValidity"

\* C6: no cause named by a TransactionValidityError variant is also a direct
\* variant of Error: an Error built from one of its own variants never
\* carries the name of a TransactionValidityError variant.
C6_NoInlineDuplicate ==
    ret.op = "error" => ret.out.tag \notin TransactionValidityErrorVariants

\* C7: Error::from(c) is InvalidTransaction(c) and
\* TransactionValidityError::from(c) is Validation(c) for a CheckError c;
\* Error::from(e) is InvalidTransaction(Validity(e)) and
\* TransactionValidityError::from(e) is Validation(Validity(e)) for a
\* ValidityError e, which is what converting the CheckError Validity(e) gives.
C7_NoDoubleWrap ==
    /\ ret.op = "error_from_check" =>
          /\ ret.out.tag = "InvalidTransaction"
          /\ ret.out.payload = ret.self
    /\ ret.op = "validity_from_check" =>
          /\ ret.out.tag = "Validation"
          /\ ret.out.payload = ret.self
    /\ ret.op = "error_from_validity" =>
          /\ ret.out.tag = "InvalidTransaction"
          /\ ret.out.payload.tag = "Validity"
          /\ ret.out.payload.payload = ret.self
          /\ ret.out = Error_from_CheckError(CheckError_Validity(ret.self))
    /\ ret.op = "validity_from_validity" =>
          /\ ret.out.tag = "Validation"
          /\ ret.out.payload.tag = "Validity"
          /\ ret.out.payload.payload = ret.self
          /\ ret.out = TransactionValidityError_from_CheckError(CheckError_Validity(ret.self))

C7_Witness ==
    /\ ret.op = "error_from_validity"
    /\ ret.self = "NoSpendableInput"
    /\ ret.out.payload.tag = "Validity"

\* C8: m.filter_map(f) is None exactly when f yields None on the payload of
\* m, and is otherwise a wrapper of the variant of m holding what f yielded;
\* f is applied once.
C8_FilterMap ==
    ret.op = "filter_map" =>
        /\ ret.calls = <<ret.self.payload>>
        /\ (ret.out = None) <=> (ret.f[ret.self.payload] = None)
        /\ ret.out # None =>
              /\ ret.out[1].tag = ret.self.tag
              /\ ret.out[1].payload = ret.f[ret.self.payload][1]

C8_Witness ==
    /\ ret.op = "filter_map"
    /\ ret.self.tag = "DryRun"
    /\ ret.out # None
    /\ ret.out[1].payload # ret.self.payload

\* C9: to_kind, as_ref and deref leave the wrapper as it was; as_ref and
\* as_mut return a wrapper of the variant of the original whose payload is a
\* view of the payload of the original; a write through as_mut or deref_mut
\* changes the payload of the original and not its variant.
C9_ProjectionsKeepMode ==
    /\ ret.op \in {"to_kind", "as_ref", "deref"} => held = Some(ret.self)
    /\ ret.op = "to_kind" => ret.out = ret.self.tag
    /\ ret.op = "as_ref" =>
          /\ ret.out.tag = ret.self.tag
          /\ ret.seen = Some(ret.self.payload)
    /\ ret.op = "deref" => ret.seen = Some(ret.self.payload)
    /\ ret.op = "as_mut" =>
          /\ ret.out.tag = ret.self.tag
          /\ held = Some([tag |-> ret.self.tag, payload |-> ret.arg])
    /\ ret.op = "deref_mut" =>
          held = Some([tag |-> ret.self.tag, payload |-> ret.arg])

C9_Witness ==
    /\ ret.op = "as_mut"
    /\ ret.self.tag = "Production"
    /\ held[1].payload # ret.self.payload

\* C10: id() of an ExecutionBlock is Some exactly in Validation mode, and is
\* then the id of the wrapped block; in DryRun and Production mode it is None.
C10_IdOnlyWhenValidating ==
    ret.op = "id" =>
        /\ (ret.out # None) <=> (ret.self.tag = "Validation")
        /\ ret.self.tag = "Validation" => ret.out = Some(BlockId(ret.self.payload))

C10_Witness ==
    /\ ret.op = "id"
    /\ ret.self.tag = "Validation"
    /\ ret.out # None
====
